---- MODULE Spec2Model ----
(***************************************************************************)
(* LFUCache of src/LFUcache/src/main.rs: a key index (cache), a map from   *)
(* frequency to a doubly linked list with head and tail sentinels          *)
(* (freq_map), and the frequency floor min_freq.                           *)
(*                                                                         *)
(* A List is modelled with its pointers: nodes is the arena of the nodes   *)
(* the list owns, a node's next/prev hold the index of the neighbour or    *)
(* None.  Index 1 is the head sentinel, index 2 the tail sentinel, real    *)
(* nodes follow in allocation order.  A node nobody refers to any more is  *)
(* dropped from the arena, as the reference count of Rc does.              *)
(***************************************************************************)
EXTENDS Integers, Sequences, FiniteSets, TLC

\* Bounds of the model.
MaxKey == 2
MaxVal == 2
MaxCap == 2
MaxFreq == 3

\* Keys include -1, the key value the sentinels carry.
Keys == {-1} \cup (1..MaxKey)
Vals == {10 * i : i \in 1..MaxVal}
Caps == 0..MaxCap

VARIABLES capacity, freq_map, cache, min_freq, panicked, op, recency, last_put

\* The other programs of the repository, one object and one history each:
\* LRUCache, MinStack, PeekingIterator and Twitter.
VARIABLES lru, lru_hist, ms, ms_hist, it, it_hist, tw, tw_hist

\* A List of the LFUCache driven on its own, the Trie, and the history of a
\* Codec (which has no fields).
VARIABLES lst, lst_hist, trie, trie_hist, codec_hist

lfuVars == <<capacity, freq_map, cache, min_freq, panicked, op, recency, last_put>>
lruVars == <<lru, lru_hist>>
msVars == <<ms, ms_hist>>
itVars == <<it, it_hist>>
twVars == <<tw, tw_hist>>
lstVars == <<lst, lst_hist>>
trieVars == <<trie, trie_hist>>
codecVars == <<codec_hist>>

vars == <<lfuVars, lruVars, msVars, itVars, twVars, lstVars, trieVars, codecVars>>

\* The value of a variable whose program has not been started.
Absent == << >>

LfuAbsent ==
  /\ capacity = Absent /\ freq_map = Absent /\ cache = Absent /\ min_freq = Absent
  /\ panicked = Absent /\ op = Absent /\ recency = Absent /\ last_put = Absent
LruAbsent == lru = Absent /\ lru_hist = Absent
MsAbsent == ms = Absent /\ ms_hist = Absent
ItAbsent == it = Absent /\ it_hist = Absent
TwAbsent == tw = Absent /\ tw_hist = Absent
LstAbsent == lst = Absent /\ lst_hist = Absent
TrieAbsent == trie = Absent /\ trie_hist = Absent
CodecAbsent == codec_hist = Absent

\* Option::None for a node link.
None == 0

\* The value get returns for "not found".
NotFound == -1

Node_new(key, val) == [key |-> key, val |-> val, next |-> None, prev |-> None]

List_new ==
  LET head == 1
      tail == 2
  IN [head |-> head, tail |-> tail,
      nodes |-> << [Node_new(-1, -1) EXCEPT !.next = tail],
                   [Node_new(-1, -1) EXCEPT !.prev = head] >>]

\* Result of a list operation: the list after it, the node it returns
\* (None for Option::None) and whether an unwrap inside it failed.
ListResult(list, node, panic) == [list |-> list, node |-> node, panic |-> panic]

\* Mutant of insert_from_head: the node is linked in front of the tail.
insert_before_tail(list, node) ==
  LET nodes == list.nodes
      node_rc == Len(nodes) + 1
      last == nodes[list.tail].prev
  IN IF last = None
     THEN ListResult(list, None, TRUE)
     ELSE LET n1 == Append(nodes, [node EXCEPT !.prev = last, !.next = list.tail])
              n2 == [n1 EXCEPT ![list.tail].prev = node_rc]
              n3 == [n2 EXCEPT ![last].next = node_rc]
          IN ListResult([list EXCEPT !.nodes = n3], node_rc, FALSE)

insert_from_head(list, node) ==
  LET nodes == list.nodes
      node_rc == Len(nodes) + 1
      next == nodes[list.head].next
  IN IF next = None
     THEN ListResult(list, None, TRUE)
     ELSE LET n1 == Append(nodes, [node EXCEPT !.prev = list.head, !.next = next])
              n2 == [n1 EXCEPT ![list.head].next = node_rc]
              n3 == [n2 EXCEPT ![next].prev = node_rc]
          IN ListResult([list EXCEPT !.nodes = n3], node_rc, FALSE)

RECURSIVE remove_node_loop(_, _, _)
remove_node_loop(list, key, current) ==
  LET nodes == list.nodes
      next_opt == nodes[current].next
  IN IF next_opt = None
     THEN ListResult(list, None, FALSE)
     ELSE IF nodes[next_opt].key = key
          THEN LET prev_rc == nodes[next_opt].prev
                   next_next_opt == nodes[next_opt].next
               IN IF prev_rc = None
                  THEN ListResult(list, None, TRUE)
                  ELSE LET n1 == [nodes EXCEPT ![prev_rc].next = next_next_opt]
                           n2 == IF next_next_opt # None
                                 THEN [n1 EXCEPT ![next_next_opt].prev = prev_rc]
                                 ELSE n1
                       IN ListResult([list EXCEPT !.nodes = n2], next_opt, FALSE)
          ELSE remove_node_loop(list, key, next_opt)

\* Mutant of remove_node: the scan finds nothing and unlinks nothing.
remove_node_noop(list, key) == ListResult(list, None, FALSE)

\* Mutant of remove_node: the entry next to the tail is unlinked, whatever
\* its key.
remove_node_last(list, key) ==
  LET nodes == list.nodes
      last == nodes[list.tail].prev
  IN IF last = None \/ nodes[last].prev = None
     THEN ListResult(list, None, FALSE)
     ELSE LET n1 == [nodes EXCEPT ![nodes[last].prev].next = list.tail]
              n2 == [n1 EXCEPT ![list.tail].prev = nodes[last].prev]
          IN ListResult([list EXCEPT !.nodes = n2], last, FALSE)

remove_node(list, key) == remove_node_loop(list, key, list.head)

\* Mutant of remove_tail: the entry next to the head is unlinked.
remove_tail_front(list) ==
  LET nodes == list.nodes
      first == nodes[list.head].next
  IN IF first = None \/ nodes[first].next = None
     THEN ListResult(list, None, FALSE)
     ELSE LET n1 == [nodes EXCEPT ![nodes[first].next].prev = list.head]
              n2 == [n1 EXCEPT ![list.head].next = nodes[first].next]
          IN ListResult([list EXCEPT !.nodes = n2], first, FALSE)

remove_tail(list) ==
  LET nodes == list.nodes
      tail_prev == nodes[list.tail].prev
  IN IF tail_prev = None
     THEN ListResult(list, None, FALSE)
     ELSE LET prev_prev == nodes[tail_prev].prev
          IN IF prev_prev = None
             THEN ListResult(list, None, FALSE)
             ELSE LET n1 == [nodes EXCEPT ![prev_prev].next = list.tail]
                      n2 == [n1 EXCEPT ![list.tail].prev = prev_prev]
                  IN ListResult([list EXCEPT !.nodes = n2], tail_prev, FALSE)

\* Mutant of head_next_is_none: the test is inverted.
head_next_is_some(list) == list.nodes[list.head].next # None

\* The test get and put use for "the list has become empty".
head_next_is_none(list) == list.nodes[list.head].next = None

\* Rc: node i of the arena is freed; links to later nodes move down by one.
Shift(p, i) == IF p > i THEN p - 1 ELSE p

rc_drop(list, i) ==
  LET nodes == list.nodes
  IN [list EXCEPT !.nodes =
        [j \in 1..(Len(nodes) - 1) |->
           LET n == IF j < i THEN nodes[j] ELSE nodes[j + 1]
           IN [n EXCEPT !.next = Shift(n.next, i), !.prev = Shift(n.prev, i)]]]

\* The tuple (value, frequency, node) the key index stores.
Entry(val, freq, node) == [val |-> val, freq |-> freq, node |-> node]

panic(self) == [self EXCEPT !.panicked = TRUE]

MapRemove(m, k) == [x \in (DOMAIN m) \ {k} |-> m[x]]

\* A node handle goes out of scope: the node is freed when neither a link of
\* its list nor a tuple of the key index refers to it.
release(self, freq, i) ==
  IF freq \notin DOMAIN self.freq_map
  THEN self
  ELSE LET list == self.freq_map[freq]
           nodes == list.nodes
       IN IF \/ i \notin 1..Len(nodes)
             \/ i \in {list.head, list.tail}
             \/ \E j \in 1..Len(nodes) : nodes[j].next = i \/ nodes[j].prev = i
             \/ \E k \in DOMAIN self.cache :
                   self.cache[k].freq = freq /\ self.cache[k].node = i
          THEN self
          ELSE [self EXCEPT
                  !.freq_map[freq] = rc_drop(list, i),
                  !.cache = [k \in DOMAIN self.cache |->
                               IF self.cache[k].freq = freq
                               THEN [self.cache[k] EXCEPT !.node = Shift(@, i)]
                               ELSE self.cache[k]]]

\* HashMap::insert on the key index; the tuple it replaces is dropped.
cache_insert(self, key, entry) ==
  LET s1 == [self EXCEPT !.cache = (key :> entry) @@ self.cache]
  IN IF key \in DOMAIN self.cache
     THEN release(s1, self.cache[key].freq, self.cache[key].node)
     ELSE s1

\* Mutant of new_freq_of: the frequency is bumped by two.
new_freq_skip(freq) == freq + 2

new_freq_of(freq) == freq + 1

\* "Remove from old frequency list" of get and put.
detach(self, key, freq, new_freq) ==
  IF freq \notin DOMAIN self.freq_map
  THEN panic(self)
  ELSE LET r == remove_node(self.freq_map[freq], key)
           old_list == r.list
       IN IF r.panic
          THEN panic(self)
          ELSE IF head_next_is_none(old_list)
               THEN [self EXCEPT
                       !.freq_map = MapRemove(self.freq_map, freq),
                       !.min_freq = IF self.min_freq = freq THEN new_freq ELSE @]
               ELSE [self EXCEPT !.freq_map[freq] = old_list]

\* "Insert into new frequency list" and "Update cache" of get and put.
\* Mutant of attach: the node inserted carries no value.
attach_blank_node(self, key, val, new_freq) ==
  IF self.panicked
  THEN self
  ELSE LET fm == IF new_freq \in DOMAIN self.freq_map
                 THEN self.freq_map
                 ELSE (new_freq :> List_new) @@ self.freq_map
           r == insert_from_head(fm[new_freq], Node_new(key, 0))
       IN IF r.panic
          THEN panic(self)
          ELSE cache_insert([self EXCEPT !.freq_map = [fm EXCEPT ![new_freq] = r.list]],
                            key, Entry(val, new_freq, r.node))

attach(self, key, val, new_freq) ==
  IF self.panicked
  THEN self
  ELSE LET fm == IF new_freq \in DOMAIN self.freq_map
                 THEN self.freq_map
                 ELSE (new_freq :> List_new) @@ self.freq_map
           r == insert_from_head(fm[new_freq], Node_new(key, val))
       IN IF r.panic
          THEN panic(self)
          ELSE cache_insert([self EXCEPT !.freq_map = [fm EXCEPT ![new_freq] = r.list]],
                            key, Entry(val, new_freq, r.node))

\* Mutant of get_miss: a miss answers with the default integer.
get_miss_zero(self, key) == [self |-> self, ret |-> 0]

get_miss(self, key) == [self |-> self, ret |-> NotFound]

\* Mutant of get_hit: the key is passed where the value belongs.
get_hit_keyval(self, key) ==
  LET val == self.cache[key].val
      freq == self.cache[key].freq
      new_freq == new_freq_of(freq)
  IN [self |-> attach(detach(self, key, freq, new_freq), key, key, new_freq),
      ret |-> val]

get_hit(self, key) ==
  LET val == self.cache[key].val
      freq == self.cache[key].freq
      new_freq == new_freq_of(freq)
  IN [self |-> attach(detach(self, key, freq, new_freq), key, val, new_freq),
      ret |-> val]

get(self, key) ==
  IF self.capacity = 0
  THEN [self |-> self, ret |-> NotFound]
  ELSE IF key \in DOMAIN self.cache
       THEN get_hit(self, key)
       ELSE get_miss(self, key)

\* node_rc.borrow_mut().val = value
node_set_val(self, freq, node, value) ==
  IF freq \in DOMAIN self.freq_map /\ node \in 1..Len(self.freq_map[freq].nodes)
  THEN [self EXCEPT !.freq_map[freq].nodes[node].val = value]
  ELSE self

\* Mutant of put_existing: the key index keeps the old value.
put_existing_stale(self, key, value) ==
  LET freq == self.cache[key].freq
      node_rc == self.cache[key].node
      new_freq == new_freq_of(freq)
      s0 == node_set_val(self, freq, node_rc, value)
  IN attach(detach(s0, key, freq, new_freq), key, self.cache[key].val, new_freq)

put_existing(self, key, value) ==
  LET freq == self.cache[key].freq
      node_rc == self.cache[key].node
      new_freq == new_freq_of(freq)
      s0 == node_set_val(self, freq, node_rc, value)
  IN attach(detach(s0, key, freq, new_freq), key, value, new_freq)

\* "Cache is full, evict least frequently used item"
evict(self) ==
  IF self.min_freq \notin DOMAIN self.freq_map
  THEN panic(self)
  ELSE LET r == remove_tail(self.freq_map[self.min_freq])
           s1 == IF r.node # None
                 THEN release([self EXCEPT
                                 !.freq_map[self.min_freq] = r.list,
                                 !.cache = MapRemove(self.cache, r.list.nodes[r.node].key)],
                              self.min_freq, r.node)
                 ELSE self
       IN IF head_next_is_none(s1.freq_map[self.min_freq])
          THEN [s1 EXCEPT !.freq_map = MapRemove(s1.freq_map, self.min_freq)]
          ELSE s1

\* Mutant of put_new: the key is inserted at frequency 2.
put_new_second(self, key, value) ==
  LET s1 == IF Cardinality(DOMAIN self.cache) >= self.capacity
            THEN evict(self)
            ELSE self
      s2 == attach(s1, key, value, 2)
  IN IF s2.panicked THEN s2 ELSE [s2 EXCEPT !.min_freq = 1]

\* Mutant of put_new: room is made before every insertion.
put_new_always_evict(self, key, value) ==
  LET s1 == IF self.cache # << >> THEN evict(self) ELSE self
      s2 == attach(s1, key, value, 1)
  IN IF s2.panicked THEN s2 ELSE [s2 EXCEPT !.min_freq = 1]

put_new(self, key, value) ==
  LET s1 == IF Cardinality(DOMAIN self.cache) >= self.capacity
            THEN evict(self)
            ELSE self
      s2 == attach(s1, key, value, 1)
  IN IF s2.panicked THEN s2 ELSE [s2 EXCEPT !.min_freq = 1]

\* Mutant of put: the capacity-0 guard is missing.
put_unguarded(self, key, value) ==
  IF key \in DOMAIN self.cache
  THEN put_existing(self, key, value)
  ELSE put_new(self, key, value)

put(self, key, value) ==
  IF self.capacity = 0
  THEN self
  ELSE IF key \in DOMAIN self.cache
       THEN put_existing(self, key, value)
       ELSE put_new(self, key, value)

LFUCache_new(cap) ==
  [capacity |-> cap, freq_map |-> << >>, cache |-> << >>, min_freq |-> 1,
   panicked |-> FALSE]

Self ==
  [capacity |-> capacity, freq_map |-> freq_map, cache |-> cache,
   min_freq |-> min_freq, panicked |-> panicked]

\* History: the last call with its result and the number of keys that were
\* live when it was made, the live keys from the most
\* recently to the least recently touched, and for every live key the value
\* of the most recent put since the key was inserted.
Touch(rec, key, live) ==
  (IF key \in live THEN <<key>> ELSE << >>)
     \o SelectSeq(rec, LAMBDA k : k # key /\ k \in live)

Remember(w, key, value, live) ==
  [k \in live \cap (DOMAIN w \cup {key}) |-> IF k = key THEN value ELSE w[k]]

Init ==
  /\ \E cap \in Caps :
       /\ capacity = LFUCache_new(cap).capacity
       /\ freq_map = LFUCache_new(cap).freq_map
       /\ cache = LFUCache_new(cap).cache
       /\ min_freq = LFUCache_new(cap).min_freq
       /\ panicked = LFUCache_new(cap).panicked
  /\ op = [name |-> "new", key |-> 0, value |-> 0, ret |-> 0, live |-> 0]
  /\ recency = << >>
  /\ last_put = << >>
  /\ LruAbsent /\ MsAbsent /\ ItAbsent /\ TwAbsent
  /\ LstAbsent /\ TrieAbsent /\ CodecAbsent

\* A call is made only while the process is alive, and only while the
\* frequency it would produce stays within MaxFreq.
CanBump(key) == key \in DOMAIN cache => cache[key].freq < MaxFreq

Install(s) ==
  /\ capacity' = s.capacity
  /\ freq_map' = s.freq_map
  /\ cache' = s.cache
  /\ min_freq' = s.min_freq
  /\ panicked' = s.panicked

Get(key) ==
  /\ ~panicked
  /\ CanBump(key)
  /\ LET r == get(Self, key)
     IN /\ Install(r.self)
        /\ op' = [name |-> "get", key |-> key, value |-> 0, ret |-> r.ret,
                  live |-> Cardinality(DOMAIN cache)]
        /\ recency' = Touch(recency, key, DOMAIN r.self.cache)
        /\ last_put' = [k \in DOMAIN r.self.cache \cap DOMAIN last_put |-> last_put[k]]
  /\ UNCHANGED <<lruVars, msVars, itVars, twVars, lstVars, trieVars, codecVars>>

Put(key, value) ==
  /\ ~panicked
  /\ CanBump(key)
  /\ LET s == put(Self, key, value)
     IN /\ Install(s)
        /\ op' = [name |-> "put", key |-> key, value |-> value, ret |-> 0,
                  live |-> Cardinality(DOMAIN cache)]
        /\ recency' = Touch(recency, key, DOMAIN s.cache)
        /\ last_put' = Remember(last_put, key, value, DOMAIN s.cache)
  /\ UNCHANGED <<lruVars, msVars, itVars, twVars, lstVars, trieVars, codecVars>>

Next ==
  \/ \E key \in Keys : Get(key)
  \/ \E key \in Keys, value \in Vals : Put(key, value)

Spec == Init /\ [][Next]_vars

\* ---- Vocabulary of the properties ----

\* The indices of the nodes reached from the head sentinel through next.
RECURSIVE ChainFrom(_, _)
ChainFrom(list, i) ==
  IF i = None THEN << >> ELSE <<i>> \o ChainFrom(list, list.nodes[i].next)

\* The keys of the real entries of a list, front (most recent) to back.
ListKeys(list) ==
  LET real == SelectSeq(ChainFrom(list, list.nodes[list.head].next),
                        LAMBDA i : i # list.tail /\ i # list.head)
  IN [j \in 1..Len(real) |-> list.nodes[real[j]].key]

Occurrences(seq, x) == Cardinality({j \in 1..Len(seq) : seq[j] = x})

LiveKeys == DOMAIN cache

\* The call of the step is a put of an absent key on a cache of capacity >= 1
\* that holds exactly capacity keys.
PutNewAtFull ==
  /\ op'.name = "put"
  /\ capacity >= 1
  /\ op'.key \notin LiveKeys
  /\ Cardinality(LiveKeys) = capacity

\* The live keys of lowest frequency, and the one touched longest ago.
MinFreqKeys == {k \in LiveKeys : \A o \in LiveKeys : cache[k].freq <= cache[o].freq}

PosIn(seq, x) == CHOOSE j \in 1..Len(seq) : seq[j] = x

OldestOf(S) == CHOOSE k \in S : \A o \in S : PosIn(recency, k) >= PosIn(recency, o)

\* ---- C1 ----
\* C1: for a cache of capacity c >= 1 the number of distinct keys in the key
\* index never exceeds c.
C1_CapacityBound == capacity >= 1 => Cardinality(LiveKeys) <= capacity

\* ---- C2 ----
\* C2: a put of an absent key on a cache holding exactly capacity keys
\* removes exactly one previously live key, and that key's frequency is at
\* most the frequency of every key live before the call.
C2_EvictsLowestFrequency ==
  [][PutNewAtFull =>
       \E e \in LiveKeys :
          /\ DOMAIN cache' = (LiveKeys \ {e}) \cup {op'.key}
          /\ \A o \in LiveKeys : cache[e].freq <= cache[o].freq]_vars

\* ---- C3 ----
\* C3: when a put of an absent key at full capacity finds several live keys
\* sharing the minimum frequency, the key it evicts is the one among them
\* whose most recent touch is the oldest.
C3_LruTieBreak ==
  [][(PutNewAtFull /\ Cardinality(MinFreqKeys) >= 2) =>
       DOMAIN cache' = (LiveKeys \ {OldestOf(MinFreqKeys)}) \cup {op'.key}]_vars

\* ---- C4 ----
\* C4: for capacity >= 1, right after put(k, v) a get(k) returns v, whether
\* k was present, new, or inserted after an eviction.
C4_ReadYourWrite ==
  (op.name = "put" /\ capacity >= 1) =>
     /\ ~panicked
     /\ get(Self, op.key).ret = op.value
     /\ ~get(Self, op.key).self.panicked

C4_Witness ==
  /\ op.name = "put"
  /\ capacity >= 1
  /\ Cardinality(LiveKeys) >= 2
  /\ cache[op.key].freq >= 2
  /\ get(Self, op.key).ret = op.value
  /\ \E k \in LiveKeys : k # op.key /\ cache[k].val # op.value

\* ---- C5 ----
\* C5: a key's frequency is 1 right after the put that inserts it, grows by
\* exactly 1 on each get hit and each put on the present key, and is left
\* alone by calls on other keys; it never decreases while the key is live.
C5_FrequencyMonotone ==
  [][\A k \in Keys :
       /\ (k \notin LiveKeys /\ k \in DOMAIN cache') =>
             (op'.name = "put" /\ op'.key = k /\ cache'[k].freq = 1)
       /\ (k \in LiveKeys /\ k \in DOMAIN cache') =>
             cache'[k].freq = IF op'.key = k THEN cache[k].freq + 1
                                             ELSE cache[k].freq]_vars

C5_Witness ==
  /\ op.name = "get"
  /\ op.key \in LiveKeys
  /\ cache[op.key].freq >= 3
  /\ \E k \in LiveKeys : k # op.key /\ cache[k].freq = 1

\* ---- C6 ----
\* C6: get of a key that is not in the cache returns -1 and leaves the key
\* index, the frequency lists and min_freq unchanged.
C6_AbsentGet ==
  [][(op'.name = "get" /\ op'.key \notin LiveKeys) =>
       /\ op'.ret = -1
       /\ UNCHANGED <<capacity, freq_map, cache, min_freq, panicked>>]_vars

C6_Witness ==
  /\ op.name = "get"
  /\ capacity >= 1
  /\ op.key \notin LiveKeys
  /\ op.ret = -1
  /\ LiveKeys # {}

\* ---- C7 ----
\* C7: with capacity 0 every put is a no-op and every get returns -1; the
\* key index and the frequency index stay empty.
C7_CapacityZero ==
  capacity = 0 =>
     /\ cache = << >>
     /\ freq_map = << >>
     /\ min_freq = 1
     /\ ~panicked
     /\ (op.name = "get" => op.ret = -1)

C7_Witness == capacity = 0 /\ op.name = "put" /\ cache = << >>

\* ---- C8 ----
\* C8: the keys of the key index are exactly the keys of the real nodes of
\* the frequency lists; each key is in one list only, once, and that is the
\* list stored under the frequency the key index records for it.
C8_IndexConsistency ==
  /\ \A k \in LiveKeys :
        /\ cache[k].freq \in DOMAIN freq_map
        /\ Occurrences(ListKeys(freq_map[cache[k].freq]), k) = 1
  /\ \A f \in DOMAIN freq_map :
        \A j \in 1..Len(ListKeys(freq_map[f])) :
           LET k == ListKeys(freq_map[f])[j]
           IN k \in LiveKeys /\ cache[k].freq = f

C8_Witness ==
  /\ Cardinality(LiveKeys) >= 3
  /\ \E f \in DOMAIN freq_map : Len(ListKeys(freq_map[f])) >= 2
  /\ \E k1, k2 \in LiveKeys : cache[k1].freq # cache[k2].freq

\* ---- C9 ----
\* C9: whenever the cache holds a key, min_freq is the smallest frequency
\* recorded for a live key.
C9_MinFreqIsMinimum ==
  LiveKeys # {} =>
     /\ \E k \in LiveKeys : cache[k].freq = min_freq
     /\ \A k \in LiveKeys : cache[k].freq >= min_freq

\* ---- C10 ----
\* C10: after every completed get or put, every list stored in freq_map
\* holds at least one real entry.
C10_NoEmptyBuckets ==
  \A f \in DOMAIN freq_map : Len(ListKeys(freq_map[f])) >= 1

\* The keys of a frequency's list other than key x, front to back; the
\* empty sequence when freq_map holds no list for the frequency.
OthersAt(fm, f, x) ==
  IF f \in DOMAIN fm
  THEN SelectSeq(ListKeys(fm[f]), LAMBDA k : k # x)
  ELSE << >>

\* ---- C11 ----
\* C11: a get, hit or miss, leaves the set of live keys and every stored
\* value unchanged; the frequency of every other key and the relative order
\* of the other keys inside every frequency list are unchanged.
C11_GetNeverEvicts ==
  [][op'.name = "get" =>
       /\ DOMAIN cache' = LiveKeys
       /\ \A k \in LiveKeys :
             /\ cache'[k].val = cache[k].val
             /\ k # op'.key => cache'[k].freq = cache[k].freq
       /\ \A f \in 1..(MaxFreq + 1) :
             OthersAt(freq_map', f, op'.key) = OthersAt(freq_map, f, op'.key)]_vars

C11_Witness ==
  /\ op.name = "get"
  /\ op.key \in LiveKeys
  /\ cache[op.key].freq >= 2
  /\ Len(OthersAt(freq_map, cache[op.key].freq, op.key)) >= 1
  /\ Len(OthersAt(freq_map, 1, op.key)) >= 1

\* ---- C12 ----
\* C12: put(k, v) on a present key stores v, raises k's frequency by exactly
\* 1, makes k the front entry of the list of the new frequency and evicts
\* nothing, also at full capacity; the live keys and every other key's value
\* and frequency are unchanged.
C12_PutExisting ==
  [][(op'.name = "put" /\ capacity >= 1 /\ op'.key \in LiveKeys) =>
       /\ DOMAIN cache' = LiveKeys
       /\ cache'[op'.key].val = op'.value
       /\ cache'[op'.key].freq = cache[op'.key].freq + 1
       /\ cache'[op'.key].freq \in DOMAIN freq_map'
       /\ Len(ListKeys(freq_map'[cache'[op'.key].freq])) >= 1
       /\ ListKeys(freq_map'[cache'[op'.key].freq])[1] = op'.key
       /\ \A k \in LiveKeys \ {op'.key} :
             cache'[k].val = cache[k].val /\ cache'[k].freq = cache[k].freq]_vars

C12_Witness ==
  /\ op.name = "put"
  /\ op.key \in LiveKeys
  /\ cache[op.key].freq >= 2
  /\ cache[op.key].val = op.value
  /\ Cardinality(LiveKeys) >= capacity
  /\ Len(ListKeys(freq_map[cache[op.key].freq])) >= 2
  /\ ListKeys(freq_map[cache[op.key].freq])[1] = op.key

\* ---- C13 ----
\* C13: no call faults: no unwrap fails, freq_map holds a list for the
\* recorded frequency of every live key, and it holds a list under min_freq
\* whenever the next put of a new key would reach the eviction branch.
C13_Totality ==
  /\ ~panicked
  /\ \A k \in LiveKeys : cache[k].freq \in DOMAIN freq_map
  /\ (capacity >= 1 /\ Cardinality(LiveKeys) >= capacity) => min_freq \in DOMAIN freq_map

C13_Witness ==
  /\ op.name = "put"
  /\ capacity >= 1
  /\ Cardinality(LiveKeys) > capacity
  /\ \A k \in LiveKeys : cache[k].freq >= 2
  /\ ~panicked

(***************************************************************************)
(* LRUCache of src/design-lru-cache/src/main.rs: one doubly linked list    *)
(* between a head and a tail sentinel, most recently used first, and a     *)
(* key index holding the node of every key.  nodes is the arena of the     *)
(* nodes alive, index 1 the head sentinel, index 2 the tail sentinel.      *)
(***************************************************************************)

LruNode_new(key, val) == [key |-> key, val |-> val, prev |-> None, next |-> None]

LRUCache_new(cap) ==
  LET head == 1
      tail == 2
  IN [cap |-> cap, cache |-> << >>, head |-> head, tail |-> tail,
      nodes |-> << [LruNode_new(-1, -1) EXCEPT !.next = tail],
                   [LruNode_new(-1, -1) EXCEPT !.prev = head] >>,
      panicked |-> FALSE]

lru_panic(self) == [self EXCEPT !.panicked = TRUE]

lru_remove(self, node) ==
  LET prev == self.nodes[node].prev
      next == self.nodes[node].next
  IN IF self.panicked
     THEN self
     ELSE IF prev = None \/ next = None
          THEN lru_panic(self)
          ELSE LET n1 == [self.nodes EXCEPT ![prev].next = next]
                   n2 == [n1 EXCEPT ![next].prev = prev]
               IN [self EXCEPT !.nodes = n2]

lru_insert(self, node) ==
  LET first == self.nodes[self.head].next
  IN IF self.panicked
     THEN self
     ELSE IF first = None
          THEN lru_panic(self)
          ELSE LET n1 == [self.nodes EXCEPT ![node].next = first]
                   n2 == [n1 EXCEPT ![node].prev = self.head]
                   n3 == [n2 EXCEPT ![first].prev = node]
                   n4 == [n3 EXCEPT ![self.head].next = node]
               IN [self EXCEPT !.nodes = n4]

\* Rc: node i is freed when no link and no entry of the key index refers to
\* it; the nodes allocated after it move down by one.
lru_free(self, i) ==
  IF \/ i \in {self.head, self.tail}
     \/ \E j \in (1..Len(self.nodes)) \ {i} :
           self.nodes[j].next = i \/ self.nodes[j].prev = i
     \/ \E k \in DOMAIN self.cache : self.cache[k] = i
  THEN self
  ELSE [self EXCEPT
          !.nodes = [j \in 1..(Len(self.nodes) - 1) |->
                       LET n == IF j < i THEN self.nodes[j] ELSE self.nodes[j + 1]
                       IN [n EXCEPT !.next = Shift(n.next, i), !.prev = Shift(n.prev, i)]],
          !.cache = [k \in DOMAIN self.cache |-> Shift(self.cache[k], i)]]

lru_get(self, key) ==
  IF key \in DOMAIN self.cache
  THEN LET node == self.cache[key]
           val == self.nodes[node].val
       IN [self |-> lru_insert(lru_remove(self, node), node), ret |-> val]
  ELSE [self |-> self, ret |-> -1]

\* Mutant of lru_put_existing: the node keeps its old value.
lru_put_existing_stale(self, key, value) ==
  LET node == self.cache[key]
  IN lru_insert(lru_remove(self, node), node)

lru_put_existing(self, key, value) ==
  LET node == self.cache[key]
      s0 == [self EXCEPT !.nodes[node].val = value]
  IN lru_insert(lru_remove(s0, node), node)

\* Mutant of lru_key: the key next to the head sentinel is taken.
lru_key_front(self) ==
  LET first == self.nodes[self.head].next
  IN IF first = None
     THEN [panic |-> TRUE, key |-> 0]
     ELSE [panic |-> FALSE, key |-> self.nodes[first].key]

\* self.tail.borrow().prev.as_ref().unwrap().borrow().key
lru_key(self) ==
  LET last == self.nodes[self.tail].prev
  IN IF last = None
     THEN [panic |-> TRUE, key |-> 0]
     ELSE [panic |-> FALSE, key |-> self.nodes[last].key]

\* "Check if we need to evict"
lru_evict(self) ==
  LET k == lru_key(self)
  IN IF k.panic
     THEN lru_panic(self)
     ELSE IF k.key \in DOMAIN self.cache
          THEN LET lru_node == self.cache[k.key]
                   s1 == [self EXCEPT !.cache = MapRemove(self.cache, k.key)]
                   s2 == lru_remove(s1, lru_node)
               IN IF s2.panicked THEN s2 ELSE lru_free(s2, lru_node)
          ELSE self

lru_put_new(self, key, value) ==
  LET s1 == IF Cardinality(DOMAIN self.cache) = self.cap
            THEN lru_evict(self)
            ELSE self
      new_node == Len(s1.nodes) + 1
      s2 == [s1 EXCEPT !.nodes = Append(s1.nodes, LruNode_new(key, value))]
      s3 == lru_insert(s2, new_node)
  IN IF s1.panicked
     THEN s1
     ELSE IF s3.panicked
          THEN s3
          ELSE [s3 EXCEPT !.cache = (key :> new_node) @@ s3.cache]

lru_put(self, key, value) ==
  IF key \in DOMAIN self.cache
  THEN lru_put_existing(self, key, value)
  ELSE lru_put_new(self, key, value)

\* History: the last call and its result, the live keys from the most to the
\* least recently used, and the value of the latest put of every key.
LruHist(o, rec, written) == [op |-> o, recency |-> rec, written |-> written]

InitLRU ==
  /\ \E cap \in Caps : lru = LRUCache_new(cap)
  /\ lru_hist = LruHist([name |-> "new", key |-> 0, value |-> 0, ret |-> 0],
                        << >>, << >>)
  /\ LfuAbsent /\ MsAbsent /\ ItAbsent /\ TwAbsent
  /\ LstAbsent /\ TrieAbsent /\ CodecAbsent

LruGet(key) ==
  /\ ~lru.panicked
  /\ LET r == lru_get(lru, key)
     IN /\ lru' = r.self
        /\ lru_hist' = LruHist([name |-> "get", key |-> key, value |-> 0, ret |-> r.ret],
                               Touch(lru_hist.recency, key, DOMAIN r.self.cache),
                               lru_hist.written)
  /\ UNCHANGED <<lfuVars, msVars, itVars, twVars, lstVars, trieVars, codecVars>>

LruPut(key, value) ==
  /\ ~lru.panicked
  /\ LET s == lru_put(lru, key, value)
     IN /\ lru' = s
        /\ lru_hist' = LruHist([name |-> "put", key |-> key, value |-> value, ret |-> 0],
                               Touch(lru_hist.recency, key, DOMAIN s.cache),
                               (key :> value) @@ lru_hist.written)
  /\ UNCHANGED <<lfuVars, msVars, itVars, twVars, lstVars, trieVars, codecVars>>

NextLRU ==
  \/ \E key \in Keys : LruGet(key)
  \/ \E key \in Keys, value \in Vals : LruPut(key, value)

SpecLRU == InitLRU /\ [][NextLRU]_vars

\* The keys of the list from the node after the head sentinel to the node
\* before the tail sentinel.
RECURSIVE LruChain(_, _)
LruChain(self, i) ==
  IF i = None \/ i = self.tail
  THEN << >>
  ELSE <<self.nodes[i].key>> \o LruChain(self, self.nodes[i].next)

LruListKeys(self) == LruChain(self, self.nodes[self.head].next)

LruLive == DOMAIN lru.cache

LruOldest == lru_hist.recency[Len(lru_hist.recency)]

\* The call of the step is a put of an absent key on a cache holding exactly
\* cap keys.
LruPutNewAtFull ==
  /\ lru_hist'.op.name = "put"
  /\ lru_hist'.op.key \notin LruLive
  /\ Cardinality(LruLive) = lru.cap

\* Exactly the least recently used key is removed; the others keep their
\* values.
LruEvictsOldest ==
  /\ LruLive # {}
  /\ DOMAIN lru'.cache = (LruLive \ {LruOldest}) \cup {lru_hist'.op.key}
  /\ \A k \in LruLive \ {LruOldest} :
        lru'.nodes[lru'.cache[k]].val = lru.nodes[lru.cache[k]].val

\* ---- C14 ----
\* C14 as stated: a put of an absent key on a cache holding exactly cap keys
\* removes exactly one key, the live key whose most recent use is the oldest,
\* and all other keys remain with their values.
C14_Original == [][LruPutNewAtFull => LruEvictsOldest]_vars

\* C14 (amended): for cap >= 1, a put of an absent key on a cache holding
\* exactly cap keys removes exactly one key, the live key whose most recent
\* use is the oldest, and all other keys remain with their values.
C14_LruEviction == [][(LruPutNewAtFull /\ lru.cap >= 1) => LruEvictsOldest]_vars

C14_Witness ==
  /\ lru_hist.op.name = "put"
  /\ lru.cap >= 2
  /\ Cardinality(LruLive) = lru.cap
  /\ lru_hist.recency[1] = lru_hist.op.key
  /\ lru.nodes[lru.cache[lru_hist.op.key]].val = lru_hist.op.value
  /\ \E k \in DOMAIN lru_hist.written : k \notin LruLive
  /\ \E k \in LruLive : k # lru_hist.op.key

\* ---- C15 ----
\* C15: put(k, v) on a present key replaces the value, makes k the first
\* (most recently used) key of the list and evicts nothing; get(k) returns
\* the value of the latest put(k, .) when k is live and -1 when k was never
\* inserted or has been evicted.
C15_LruPutExistingAndGet ==
  /\ [][(lru_hist'.op.name = "put" /\ lru_hist'.op.key \in LruLive) =>
          /\ DOMAIN lru'.cache = LruLive
          /\ lru'.nodes[lru'.cache[lru_hist'.op.key]].val = lru_hist'.op.value
          /\ LruListKeys(lru')[1] = lru_hist'.op.key]_vars
  /\ [](\A k \in Keys :
          lru_get(lru, k).ret = IF k \in LruLive THEN lru_hist.written[k] ELSE -1)
  /\ [](lru_hist.op.name = "get" =>
          lru_hist.op.ret = IF lru_hist.op.key \in LruLive
                            THEN lru_hist.written[lru_hist.op.key] ELSE -1)

C15_Witness ==
  /\ lru_hist.op.name = "get"
  /\ lru_hist.op.key \in LruLive
  /\ lru_hist.op.ret = lru_hist.written[lru_hist.op.key]
  /\ Len(LruListKeys(lru)) >= 2
  /\ LruListKeys(lru)[1] = lru_hist.op.key
  /\ \E k \in DOMAIN lru_hist.written : k \notin LruLive
  /\ \E k \in LruLive : lru_hist.written[k] # lru_hist.op.ret

(***************************************************************************)
(* MinStack of src/design-min-stack/src/main.rs: a Stack (a Vec) of pairs  *)
(* (value, current_min).  An Option is the empty sequence for None and a   *)
(* one-element sequence for Some.                                          *)
(***************************************************************************)

\* Bound on the number of elements pushed on the stack.
MaxDepth == 4

\* The values pushed: negative, zero and positive, with -1 among them.
MsVals == (0 - MaxVal)..MaxVal

Stack_new == [stack |-> << >>]

Stack_push(self, value) == [self EXCEPT !.stack = Append(self.stack, value)]

Stack_pop(self) ==
  IF Len(self.stack) = 0
  THEN [self |-> self, ret |-> << >>]
  ELSE [self |-> [self EXCEPT !.stack = SubSeq(self.stack, 1, Len(self.stack) - 1)],
        ret |-> <<self.stack[Len(self.stack)]>>]

Stack_top(self) ==
  IF Len(self.stack) = 0 THEN << >> ELSE <<self.stack[Len(self.stack)]>>

Stack_is_empty(self) == Len(self.stack) = 0

cmp_min(a, b) == IF b < a THEN b ELSE a

MinStack_new == [stack |-> Stack_new]

ms_top(self) ==
  LET t == Stack_top(self.stack)
  IN IF t # << >> THEN t[1][1] ELSE -1

\* Mutant of ms_get_min: the empty stack answers with the default integer.
ms_get_min_zero(self) ==
  LET t == Stack_top(self.stack)
  IN IF t # << >> THEN t[1][2] ELSE 0

ms_get_min(self) ==
  LET t == Stack_top(self.stack)
  IN IF t # << >> THEN t[1][2] ELSE -1

\* Mutant of ms_push: the new value is compared with the top value instead
\* of the current minimum.
ms_push_top(self, val) ==
  LET min == IF Stack_is_empty(self.stack)
             THEN val
             ELSE cmp_min(val, ms_top(self))
  IN [self EXCEPT !.stack = Stack_push(self.stack, <<val, min>>)]

ms_push(self, val) ==
  LET min == IF Stack_is_empty(self.stack)
             THEN val
             ELSE cmp_min(val, ms_get_min(self))
  IN [self EXCEPT !.stack = Stack_push(self.stack, <<val, min>>)]

ms_pop(self) == [self EXCEPT !.stack = Stack_pop(self.stack).self]

\* History: the last call with its argument (for pop, the value that left
\* the stack) and its result, and the values pushed and not yet popped,
\* oldest first.
MsHist(name, value, ret, pushed) ==
  [op |-> [name |-> name, value |-> value, ret |-> ret], pushed |-> pushed]

InitMS ==
  /\ ms = MinStack_new
  /\ ms_hist = MsHist("new", 0, 0, << >>)
  /\ LfuAbsent /\ LruAbsent /\ ItAbsent /\ TwAbsent
  /\ LstAbsent /\ TrieAbsent /\ CodecAbsent

MsPush(val) ==
  /\ Len(ms_hist.pushed) < MaxDepth
  /\ ms' = ms_push(ms, val)
  /\ ms_hist' = MsHist("push", val, 0, Append(ms_hist.pushed, val))
  /\ UNCHANGED <<lfuVars, lruVars, itVars, twVars, lstVars, trieVars, codecVars>>

MsPop ==
  /\ ms' = ms_pop(ms)
  /\ ms_hist' = MsHist("pop",
                       IF ms_hist.pushed = << >>
                       THEN 0
                       ELSE ms_hist.pushed[Len(ms_hist.pushed)],
                       0,
                       IF ms_hist.pushed = << >>
                       THEN << >>
                       ELSE SubSeq(ms_hist.pushed, 1, Len(ms_hist.pushed) - 1))
  /\ UNCHANGED <<lfuVars, lruVars, itVars, twVars, lstVars, trieVars, codecVars>>

MsTop ==
  /\ ms' = ms
  /\ ms_hist' = MsHist("top", 0, ms_top(ms), ms_hist.pushed)
  /\ UNCHANGED <<lfuVars, lruVars, itVars, twVars, lstVars, trieVars, codecVars>>

MsGetMin ==
  /\ ms' = ms
  /\ ms_hist' = MsHist("get_min", 0, ms_get_min(ms), ms_hist.pushed)
  /\ UNCHANGED <<lfuVars, lruVars, itVars, twVars, lstVars, trieVars, codecVars>>

NextMS ==
  \/ \E val \in MsVals : MsPush(val)
  \/ MsPop
  \/ MsTop
  \/ MsGetMin

SpecMS == InitMS /\ [][NextMS]_vars

\* The least element of a non-empty sequence of integers.
SeqMin(seq) == CHOOSE x \in {seq[j] : j \in 1..Len(seq)} :
                  \A j \in 1..Len(seq) : x <= seq[j]

\* ---- C16 ----
\* C16: whenever the stack is non-empty, get_min returns the minimum of the
\* values on the stack and top returns the most recently pushed value that
\* has not been popped; the answers top and get_min gave are these values.
C16_MinTracking ==
  ms_hist.pushed # << >> =>
     /\ ms_get_min(ms) = SeqMin(ms_hist.pushed)
     /\ ms_top(ms) = ms_hist.pushed[Len(ms_hist.pushed)]
     /\ (ms_hist.op.name = "get_min" => ms_hist.op.ret = SeqMin(ms_hist.pushed))
     /\ (ms_hist.op.name = "top" => ms_hist.op.ret = ms_hist.pushed[Len(ms_hist.pushed)])

\* A pop has just removed the minimum, and the previous minimum, which is
\* not the value on top, is back.
C16_Witness ==
  /\ ms_hist.op.name = "pop"
  /\ Len(ms_hist.pushed) >= 3
  /\ ms_hist.op.value < SeqMin(ms_hist.pushed)
  /\ ms_get_min(ms) = ms_hist.pushed[2]
  /\ ms_get_min(ms) < ms_hist.pushed[1]
  /\ ms_get_min(ms) < ms_top(ms)

\* ---- C17 ----
\* C17: on an empty stack top and get_min both return -1, and pop leaves the
\* stack empty.
C17_EmptyStack ==
  /\ [](ms_hist.pushed = << >> =>
          /\ ms_top(ms) = -1
          /\ ms_get_min(ms) = -1
          /\ Stack_is_empty(ms.stack)
          /\ (ms_hist.op.name \in {"top", "get_min"} => ms_hist.op.ret = -1))
  /\ [][(ms_hist'.op.name = "pop" /\ ms_hist.pushed = << >>) =>
          (ms' = ms /\ Stack_is_empty(ms'.stack))]_vars

C17_Witness ==
  /\ ms_hist.op.name = "pop"
  /\ ms_hist.pushed = << >>
  /\ ms.stack.stack = << >>
  /\ ms_top(ms) = -1
  /\ ms_get_min(ms) = -1

(***************************************************************************)
(* PeekingIterator of src/design-peeking-iter/src/main.rs over a           *)
(* vec::IntoIter: iterator is the sequence of the elements not yet taken   *)
(* from the vector, peeked the element taken ahead.  An Option is the      *)
(* empty sequence for None and a one-element sequence for Some.            *)
(***************************************************************************)

\* Bound on the length of the underlying vector.
MaxLen == 3

ItVals == 1..MaxVal

\* The vectors the tests iterate over: every sequence of at most MaxLen values.
ItSources == UNION {[1..n -> ItVals] : n \in 0..MaxLen}

\* Iterator::next of vec::IntoIter.
IntoIter_next(iter) ==
  IF iter = << >>
  THEN [iter |-> iter, ret |-> << >>]
  ELSE [iter |-> Tail(iter), ret |-> <<Head(iter)>>]

PeekingIterator_new(iter) == [iterator |-> iter, peeked |-> << >>]

\* Mutant of pk_peek: every peek takes a new element from the iterator.
pk_peek_advance(self) ==
  LET n == IntoIter_next(self.iterator)
      s1 == [self EXCEPT !.iterator = n.iter, !.peeked = n.ret]
  IN [self |-> s1, ret |-> s1.peeked]

pk_peek(self) ==
  LET n == IntoIter_next(self.iterator)
      s1 == IF self.peeked = << >>
            THEN [self EXCEPT !.iterator = n.iter, !.peeked = n.ret]
            ELSE self
  IN [self |-> s1, ret |-> s1.peeked]

\* Mutant of pk_next: the element taken ahead is dropped, not returned.
pk_next_skip(self) ==
  LET n == IntoIter_next(self.iterator)
  IN [self |-> [self EXCEPT !.iterator = n.iter, !.peeked = << >>], ret |-> n.ret]

pk_next(self) ==
  IF self.peeked # << >>
  THEN [self |-> [self EXCEPT !.peeked = << >>], ret |-> self.peeked]
  ELSE LET n == IntoIter_next(self.iterator)
       IN [self |-> [self EXCEPT !.iterator = n.iter], ret |-> n.ret]

pk_has_next(self) ==
  LET r == pk_peek(self)
  IN [self |-> r.self, ret |-> r.ret # << >>]

\* History: the last call and the call before it with their results, the
\* vector the iterator was built from, the number of next calls made and the
\* elements they returned.
ItCall(name, ret) == [name |-> name, ret |-> ret]

ItHist(o, prev, source, nexts, out) ==
  [op |-> o, prev |-> prev, source |-> source, nexts |-> nexts, out |-> out]

InitIT ==
  /\ \E source \in ItSources :
       /\ it = PeekingIterator_new(source)
       /\ it_hist = ItHist(ItCall("new", << >>), ItCall("new", << >>), source, 0, << >>)
  /\ LfuAbsent /\ LruAbsent /\ MsAbsent /\ TwAbsent
  /\ LstAbsent /\ TrieAbsent /\ CodecAbsent

ItPeek ==
  /\ LET r == pk_peek(it)
     IN /\ it' = r.self
        /\ it_hist' = [it_hist EXCEPT !.op = ItCall("peek", r.ret), !.prev = it_hist.op]
  /\ UNCHANGED <<lfuVars, lruVars, msVars, twVars, lstVars, trieVars, codecVars>>

\* next is called at most once more than the vector has elements.
ItNext ==
  /\ it_hist.nexts <= Len(it_hist.source)
  /\ LET r == pk_next(it)
     IN /\ it' = r.self
        /\ it_hist' = [it_hist EXCEPT !.op = ItCall("next", r.ret), !.prev = it_hist.op,
                                      !.nexts = @ + 1, !.out = @ \o r.ret]
  /\ UNCHANGED <<lfuVars, lruVars, msVars, twVars, lstVars, trieVars, codecVars>>

ItHasNext ==
  /\ LET r == pk_has_next(it)
     IN /\ it' = r.self
        /\ it_hist' = [it_hist EXCEPT !.op = ItCall("has_next", r.ret), !.prev = it_hist.op]
  /\ UNCHANGED <<lfuVars, lruVars, msVars, twVars, lstVars, trieVars, codecVars>>

NextIT ==
  \/ ItPeek
  \/ ItNext
  \/ ItHasNext

SpecIT == InitIT /\ [][NextIT]_vars

ItExhausted == it_hist.nexts >= Len(it_hist.source)

\* ---- C18 ----
\* C18: a peek or a next that directly follows a peek returns the element
\* that peek returned; on an exhausted iterator peek and next return None
\* and has_next returns false.
C18_PeekDoesNotConsume ==
  /\ (it_hist.prev.name = "peek" /\ it_hist.op.name \in {"peek", "next"}) =>
        it_hist.op.ret = it_hist.prev.ret
  /\ ItExhausted =>
        /\ pk_peek(it).ret = << >>
        /\ pk_next(it).ret = << >>
        /\ pk_has_next(it).ret = FALSE

C18_Witness ==
  /\ it_hist.prev.name = "peek"
  /\ it_hist.op.name = "next"
  /\ it_hist.op.ret = it_hist.prev.ret
  /\ it_hist.op.ret # << >>
  /\ it_hist.nexts = 2
  /\ it_hist.out[1] # it_hist.out[2]
  /\ ~ItExhausted

\* ---- C19 ----
\* C19: under every interleaving of peek, has_next and next, the results of
\* the next calls are the elements of the underlying sequence in order, none
\* skipped or repeated, and has_next returns true exactly when fewer next
\* calls have been made than the sequence has elements.
C19_Transparent ==
  /\ it_hist.out = SubSeq(it_hist.source, 1,
                          IF ItExhausted THEN Len(it_hist.source) ELSE it_hist.nexts)
  /\ pk_has_next(it).ret = (it_hist.nexts < Len(it_hist.source))
  /\ it_hist.op.name = "has_next" =>
        it_hist.op.ret = (it_hist.nexts < Len(it_hist.source))

C19_Witness ==
  /\ it_hist.op.name = "has_next"
  /\ it_hist.op.ret = FALSE
  /\ it_hist.prev.name = "next"
  /\ Len(it_hist.source) = 3
  /\ it_hist.out = it_hist.source
  /\ it_hist.source[1] # it_hist.source[2]

(***************************************************************************)
(* Twitter of src/design-twitter/src/main.rs: tweets maps a user to the    *)
(* vector of the user's tweets, followees maps a user to the vector of the *)
(* users followed.  A tweet carries the millisecond clock read when it was *)
(* posted; the clock never runs backwards and may stand still between two  *)
(* posts.                                                                  *)
(***************************************************************************)

\* Bounds: the users, the tweets posted and the last clock value.
MaxUser == 2
MaxTweets == 2
MaxTime == 1

Users == 1..MaxUser
TweetIds == 1..MaxTweets

Tweet_new(user_id, tweet_id, timestamp) ==
  [user_id |-> user_id, tweet_id |-> tweet_id, timestamp |-> timestamp]

\* Ord::cmp on integers, Ordering::reverse and Ordering::then_with.
int_cmp(a, b) == IF a < b THEN "Less" ELSE IF a > b THEN "Greater" ELSE "Equal"

Ordering_reverse(o) ==
  IF o = "Less" THEN "Greater" ELSE IF o = "Greater" THEN "Less" ELSE "Equal"

\* impl Ord for Tweet
tweet_cmp(a, b) ==
  LET c == Ordering_reverse(int_cmp(a.timestamp, b.timestamp))
  IN IF c # "Equal" THEN c ELSE Ordering_reverse(int_cmp(a.tweet_id, b.tweet_id))

\* user_tweets.sort_by(|a, b| b.timestamp.cmp(&a.timestamp)): a stable sort,
\* newest timestamp first.
RECURSIVE sort_by_timestamp_desc(_)
sort_by_timestamp_desc(v) ==
  IF v = << >>
  THEN << >>
  ELSE LET x == v[Len(v)]
           rest == sort_by_timestamp_desc(SubSeq(v, 1, Len(v) - 1))
       IN SelectSeq(rest, LAMBDA t : t.timestamp >= x.timestamp)
            \o <<x>>
            \o SelectSeq(rest, LAMBDA t : t.timestamp < x.timestamp)

Twitter_new == [tweets |-> << >>, followees |-> << >>, max_news_feed_size |-> 10]

\* HashMap::entry(k).or_insert_with(Vec::new)
or_insert_vec(m, k) == IF k \in DOMAIN m THEN m ELSE (k :> << >>) @@ m

post_tweet(self, user_id, tweet_id, timestamp) ==
  LET new_tweet == Tweet_new(user_id, tweet_id, timestamp)
      tweets == or_insert_vec(self.tweets, user_id)
  IN [self EXCEPT !.tweets =
        [tweets EXCEPT ![user_id] = sort_by_timestamp_desc(Append(@, new_tweet))]]

\* BinaryHeap::pop: the greatest element by Ord leaves the heap, held here as
\* the sequence of its elements.
BinaryHeap_pop(heap) ==
  IF heap = << >>
  THEN [heap |-> heap, ret |-> << >>]
  ELSE LET i == CHOOSE i \in 1..Len(heap) :
                   \A j \in 1..Len(heap) : tweet_cmp(heap[i], heap[j]) # "Less"
       IN [heap |-> SubSeq(heap, 1, i - 1) \o SubSeq(heap, i + 1, Len(heap)),
           ret |-> <<heap[i]>>]

\* "Extract top tweets (most recent)"
RECURSIVE news_feed_loop(_, _, _)
news_feed_loop(all_tweets, news_feed, max) ==
  LET p == BinaryHeap_pop(all_tweets)
  IN IF p.ret = << >>
     THEN news_feed
     ELSE LET nf == Append(news_feed, p.ret[1].tweet_id)
          IN IF Len(nf) >= max THEN nf ELSE news_feed_loop(p.heap, nf, max)

\* The tweets of the users of a vector of user ids, in the vector's order.
RECURSIVE followee_tweets(_, _)
followee_tweets(self, followees) ==
  IF followees = << >>
  THEN << >>
  ELSE (IF Head(followees) \in DOMAIN self.tweets
        THEN self.tweets[Head(followees)]
        ELSE << >>)
         \o followee_tweets(self, Tail(followees))

get_news_feed(self, user_id) ==
  LET own == IF user_id \in DOMAIN self.tweets THEN self.tweets[user_id] ELSE << >>
      others == IF user_id \in DOMAIN self.followees
                THEN followee_tweets(self, self.followees[user_id])
                ELSE << >>
  IN news_feed_loop(own \o others, << >>, self.max_news_feed_size)

vec_contains(v, x) == \E j \in 1..Len(v) : v[j] = x

\* Mutant of follow: the followee is pushed without the contains test.
follow_dup(self, follower_id, followee_id) ==
  IF follower_id = followee_id
  THEN self
  ELSE LET followees == or_insert_vec(self.followees, follower_id)
       IN [self EXCEPT !.followees =
             [followees EXCEPT ![follower_id] = Append(@, followee_id)]]

follow(self, follower_id, followee_id) ==
  IF follower_id = followee_id
  THEN self
  ELSE LET followees == or_insert_vec(self.followees, follower_id)
       IN [self EXCEPT !.followees =
             [followees EXCEPT ![follower_id] =
                IF ~vec_contains(@, followee_id) THEN Append(@, followee_id) ELSE @]]

unfollow(self, follower_id, followee_id) ==
  IF follower_id \in DOMAIN self.followees
  THEN LET v == self.followees[follower_id]
       IN IF vec_contains(v, followee_id)
          THEN LET pos == CHOOSE j \in 1..Len(v) :
                             v[j] = followee_id /\ \A h \in 1..(j - 1) : v[h] # followee_id
               IN [self EXCEPT !.followees[follower_id] =
                     SubSeq(v, 1, pos - 1) \o SubSeq(v, pos + 1, Len(v))]
          ELSE self
  ELSE self

is_following(self, follower_id, followee_id) ==
  IF follower_id \in DOMAIN self.followees
  THEN vec_contains(self.followees[follower_id], followee_id)
  ELSE FALSE

\* History: the last call with its arguments and result, the tweets in the
\* order they were posted, the clock, whether the follower of the last
\* follow or unfollow was following the followee when the call was made, and
\* whether the last call changed the object.
TwCall(name, user, arg, ret) == [name |-> name, user |-> user, arg |-> arg, ret |-> ret]

TwHist(o, posted, now, followed, changed) ==
  [op |-> o, posted |-> posted, now |-> now, followed |-> followed,
   changed |-> changed]

InitTW ==
  /\ tw = Twitter_new
  /\ tw_hist = TwHist(TwCall("new", 0, 0, << >>), << >>, 0, FALSE, FALSE)
  /\ LfuAbsent /\ LruAbsent /\ MsAbsent /\ ItAbsent
  /\ LstAbsent /\ TrieAbsent /\ CodecAbsent

\* A tweet id is posted once; the clock read is the last one or a later one.
TwPostTweet(user_id, tweet_id, timestamp) ==
  /\ \A j \in 1..Len(tw_hist.posted) : tw_hist.posted[j].tweet_id # tweet_id
  /\ timestamp >= tw_hist.now
  /\ tw' = post_tweet(tw, user_id, tweet_id, timestamp)
  /\ tw_hist' = TwHist(TwCall("post_tweet", user_id, tweet_id, << >>),
                       Append(tw_hist.posted, [user_id |-> user_id, tweet_id |-> tweet_id]),
                       timestamp, FALSE, tw' # tw)
  /\ UNCHANGED <<lfuVars, lruVars, msVars, itVars, lstVars, trieVars, codecVars>>

TwGetNewsFeed(user_id) ==
  /\ tw' = tw
  /\ tw_hist' = [tw_hist EXCEPT
                   !.op = TwCall("get_news_feed", user_id, 0, get_news_feed(tw, user_id)),
                   !.followed = FALSE,
                   !.changed = FALSE]
  /\ UNCHANGED <<lfuVars, lruVars, msVars, itVars, lstVars, trieVars, codecVars>>

TwFollow(follower_id, followee_id) ==
  /\ tw' = follow(tw, follower_id, followee_id)
  /\ tw_hist' = [tw_hist EXCEPT
                   !.op = TwCall("follow", follower_id, followee_id, << >>),
                   !.followed = is_following(tw, follower_id, followee_id),
                   !.changed = (tw' # tw)]
  /\ UNCHANGED <<lfuVars, lruVars, msVars, itVars, lstVars, trieVars, codecVars>>

TwUnfollow(follower_id, followee_id) ==
  /\ tw' = unfollow(tw, follower_id, followee_id)
  /\ tw_hist' = [tw_hist EXCEPT
                   !.op = TwCall("unfollow", follower_id, followee_id, << >>),
                   !.followed = is_following(tw, follower_id, followee_id),
                   !.changed = (tw' # tw)]
  /\ UNCHANGED <<lfuVars, lruVars, msVars, itVars, lstVars, trieVars, codecVars>>

NextTW ==
  \/ \E u \in Users, t \in TweetIds, ts \in 0..MaxTime : TwPostTweet(u, t, ts)
  \/ \E u \in Users : TwGetNewsFeed(u)
  \/ \E a \in Users, b \in Users : TwFollow(a, b)
  \/ \E a \in Users, b \in Users : TwUnfollow(a, b)

SpecTW == InitTW /\ [][NextTW]_vars

\* The ids of the tweets posted by user u and by the users u follows, from
\* the most recently to the least recently posted.
RECURSIVE ReverseSeq(_)
ReverseSeq(q) == IF q = << >> THEN << >> ELSE ReverseSeq(Tail(q)) \o <<Head(q)>>

TwCandidates(u) ==
  LET mine == SelectSeq(ReverseSeq(tw_hist.posted),
                        LAMBDA p : p.user_id = u \/ is_following(tw, u, p.user_id))
  IN [j \in 1..Len(mine) |-> mine[j].tweet_id]

FirstN(q, n) == SubSeq(q, 1, IF Len(q) < n THEN Len(q) ELSE n)

\* ---- C20 ----
\* C20: get_news_feed(u) returns at most 10 tweet ids: the most recently
\* posted tweets of u and of the users u follows, most recent first.
C20_NewsFeedNewestFirst ==
  tw_hist.op.name = "get_news_feed" =>
     /\ Len(tw_hist.op.ret) <= 10
     /\ tw_hist.op.ret = FirstN(TwCandidates(tw_hist.op.user), 10)

\* The ids of the tweets user u has posted.
TwPostedBy(u) ==
  {tw_hist.posted[j].tweet_id :
     j \in {i \in 1..Len(tw_hist.posted) : tw_hist.posted[i].user_id = u}}

\* ---- C21 ----
\* C21: follow(a, a) has no effect; after follow(a, b), also when a already
\* follows b, b is once in a's followee list and each of b's tweets is once
\* in a's feed; after unfollow(a, b) is_following(a, b) is false, none of
\* b's tweets is in a's feed and each of a's own tweets is; an unfollow of a
\* user not followed changes nothing.
C21_FollowUnfollow ==
  LET o == tw_hist.op
      a == o.user
      b == o.arg
      feed == get_news_feed(tw, a)
  IN /\ (o.name = "follow" /\ a = b) => ~tw_hist.changed
     /\ (o.name = "follow" /\ a # b) =>
           /\ a \in DOMAIN tw.followees
           /\ Occurrences(tw.followees[a], b) = 1
           /\ is_following(tw, a, b)
           /\ \A t \in TwPostedBy(b) : Occurrences(feed, t) = 1
     /\ (o.name = "unfollow" /\ a # b) =>
           /\ ~is_following(tw, a, b)
           /\ \A t \in TwPostedBy(b) : Occurrences(feed, t) = 0
           /\ \A t \in TwPostedBy(a) : Occurrences(feed, t) = 1
     /\ (o.name = "unfollow" /\ ~tw_hist.followed) => ~tw_hist.changed

\* A second follow(a, b) in a row, b having posted.
C21_Witness ==
  /\ tw_hist.op.name = "follow"
  /\ tw_hist.op.user # tw_hist.op.arg
  /\ tw_hist.followed
  /\ TwPostedBy(tw_hist.op.arg) # {}
  /\ \A t \in TwPostedBy(tw_hist.op.arg) :
        Occurrences(get_news_feed(tw, tw_hist.op.user), t) = 1

(***************************************************************************)
(* A List of src/LFUcache/src/main.rs driven on its own by the calls the   *)
(* LFUCache makes: insert_from_head of a key the list does not hold,       *)
(* remove_node of a key the list holds, remove_tail at any time.  The node *)
(* a removal returns is dropped by the caller.                             *)
(***************************************************************************)

\* The real entries of a list, front to back, as (key, val) pairs.
ListEntries(list) ==
  LET real == SelectSeq(ChainFrom(list, list.nodes[list.head].next),
                        LAMBDA i : i # list.tail /\ i # list.head)
  IN [j \in 1..Len(real) |-> [key |-> list.nodes[real[j]].key,
                              val |-> list.nodes[real[j]].val]]

\* The returned Option<Rc<RefCell<Node>>> as the caller sees it: nothing, or
\* the key and value of the node.
NodeOf(list, node) ==
  IF node = None
  THEN << >>
  ELSE <<[key |-> list.nodes[node].key, val |-> list.nodes[node].val]>>

\* The returned handle goes out of scope.
drop_returned(r) ==
  IF r.node = None \/ r.node \in {r.list.head, r.list.tail}
  THEN r.list
  ELSE rc_drop(r.list, r.node)

\* History: the last call, what it returned, the index of the node returned
\* (None for nothing), the entries before the call, whether an unwrap
\* failed, and the keys held from the most to the least recently inserted.
LstCall(name, key, ret, node) == [name |-> name, key |-> key, ret |-> ret, node |-> node]

LstHist(o, before, failed, order) ==
  [op |-> o, before |-> before, panicked |-> failed, order |-> order]

InitList ==
  /\ lst = List_new
  /\ lst_hist = LstHist(LstCall("new", 0, << >>, None), << >>, FALSE, << >>)
  /\ LfuAbsent /\ LruAbsent /\ MsAbsent /\ ItAbsent /\ TwAbsent
  /\ TrieAbsent /\ CodecAbsent

LstInsertFromHead(key, val) ==
  /\ ~lst_hist.panicked
  /\ Occurrences(ListKeys(lst), key) = 0
  /\ LET r == insert_from_head(lst, Node_new(key, val))
     IN /\ lst' = r.list
        /\ lst_hist' = LstHist(LstCall("insert_from_head", key,
                                       NodeOf(r.list, r.node), r.node),
                               ListEntries(lst), r.panic,
                               <<key>> \o lst_hist.order)
  /\ UNCHANGED <<lfuVars, lruVars, msVars, itVars, twVars, trieVars, codecVars>>

LstRemoveNode(key) ==
  /\ ~lst_hist.panicked
  /\ Occurrences(ListKeys(lst), key) = 1
  /\ LET r == remove_node(lst, key)
     IN /\ lst' = drop_returned(r)
        /\ lst_hist' = LstHist(LstCall("remove_node", key,
                                       NodeOf(r.list, r.node), r.node),
                               ListEntries(lst), r.panic,
                               SelectSeq(lst_hist.order, LAMBDA k : k # key))
  /\ UNCHANGED <<lfuVars, lruVars, msVars, itVars, twVars, trieVars, codecVars>>

LstRemoveTail ==
  /\ ~lst_hist.panicked
  /\ LET r == remove_tail(lst)
     IN /\ lst' = drop_returned(r)
        /\ lst_hist' = LstHist(LstCall("remove_tail", 0,
                                       NodeOf(r.list, r.node), r.node),
                               ListEntries(lst), r.panic,
                               IF lst_hist.order = << >>
                               THEN << >>
                               ELSE SubSeq(lst_hist.order, 1, Len(lst_hist.order) - 1))
  /\ UNCHANGED <<lfuVars, lruVars, msVars, itVars, twVars, trieVars, codecVars>>

NextList ==
  \/ \E key \in Keys, val \in Vals : LstInsertFromHead(key, val)
  \/ \E key \in Keys : LstRemoveNode(key)
  \/ LstRemoveTail

SpecList == InitList /\ [][NextList]_vars

\* ---- C24 ----
\* C24: the test "head.next is None" is true exactly when the list holds no
\* real entry, for every list reached through List::new, insert_from_head,
\* remove_node and remove_tail.
C24_EmptinessTest == head_next_is_none(lst) <=> (ListEntries(lst) = << >>)

\* ---- C28 ----
\* C28: remove_tail on a list with at least one real entry unlinks and
\* returns the entry next to the tail sentinel and keeps the order of the
\* other entries; on a list with no real entry it returns nothing and leaves
\* the list as it is; it never unlinks or returns a sentinel.
C28_Step ==
  lst_hist'.op.name = "remove_tail" =>
     LET entries == ListEntries(lst)
         o == lst_hist'.op
     IN /\ ~lst_hist'.panicked
        /\ o.node \notin {lst.head, lst.tail}
        /\ lst'.nodes[lst'.head].key = -1 /\ lst'.nodes[lst'.tail].key = -1
        /\ ChainFrom(lst', lst'.head)[Len(ListEntries(lst')) + 2] = lst'.tail
        /\ IF entries = << >>
           THEN o.ret = << >> /\ lst' = lst
           ELSE /\ o.node = lst.nodes[lst.tail].prev
                /\ o.ret = <<entries[Len(entries)]>>
                /\ ListEntries(lst') = SubSeq(entries, 1, Len(entries) - 1)

C28_RemoveTail == [][C28_Step]_vars

\* remove_tail has returned the last of three entries.
C28_Witness ==
  /\ lst_hist.op.name = "remove_tail"
  /\ Len(lst_hist.before) = 3
  /\ lst_hist.op.ret = <<lst_hist.before[3]>>
  /\ ListEntries(lst) = SubSeq(lst_hist.before, 1, 2)

\* ---- C29 ----
\* C29: insert_from_head puts the new entry directly after the head sentinel,
\* in front of all the entries held; remove_node(k) unlinks exactly the
\* entry with key k; both keep the order of all other entries, so the list
\* is always ordered from the most to the least recently inserted key, and
\* this holds for the key -1 of the sentinels as for every other key.
C29_Step ==
  LET entries == ListEntries(lst)
      o == lst_hist'.op
  IN /\ o.name = "insert_from_head" =>
          /\ ~lst_hist'.panicked
          /\ o.node = lst'.nodes[lst'.head].next
          /\ ListEntries(lst') = o.ret \o entries
          /\ o.ret[1].key = o.key
     /\ o.name = "remove_node" =>
          /\ ~lst_hist'.panicked
          /\ o.node \notin {None, lst.head, lst.tail}
          /\ o.ret # << >> /\ o.ret[1].key = o.key
          /\ ListEntries(lst') = SelectSeq(entries, LAMBDA e : e.key # o.key)
          /\ Len(ListEntries(lst')) = Len(entries) - 1

C29_RecencyOrder ==
  /\ [][C29_Step]_vars
  /\ [](ListKeys(lst) = lst_hist.order)

\* The entry with key -1 has been removed from between two other entries.
C29_Witness ==
  /\ lst_hist.op.name = "remove_node"
  /\ lst_hist.op.key = -1
  /\ Len(lst_hist.before) = 3
  /\ lst_hist.before[2].key = -1
  /\ ListEntries(lst) = <<lst_hist.before[1], lst_hist.before[3]>>

\* ---- C25 ----
\* C25: when a get hit or a put on a live key moves key k from frequency f
\* to f + 1, k was the only entry at frequency f and f was min_freq, then
\* after the call freq_map has no list under f and min_freq is f + 1.
C25_Step ==
  (/\ op'.name \in {"get", "put"}
   /\ capacity >= 1
   /\ op'.key \in LiveKeys
   /\ ListKeys(freq_map[cache[op'.key].freq]) = <<op'.key>>
   /\ cache[op'.key].freq = min_freq)
  => /\ cache[op'.key].freq \notin DOMAIN freq_map'
     /\ min_freq' = cache[op'.key].freq + 1

C25_BucketRemoved == [][C25_Step]_vars

\* ---- C26 ----
\* C26: after put(k, v) with k absent and capacity >= 1, k is in the cache
\* with value v and frequency 1, k is the front entry of the frequency-1
\* list and min_freq is 1, with or without an eviction.
C26_Step ==
  (op'.name = "put" /\ capacity >= 1 /\ op'.key \notin LiveKeys)
  => /\ op'.key \in DOMAIN cache'
     /\ cache'[op'.key].val = op'.value
     /\ cache'[op'.key].freq = 1
     /\ 1 \in DOMAIN freq_map'
     /\ ListEntries(freq_map'[1])[1] = [key |-> op'.key, val |-> op'.value]
     /\ freq_map'[1].nodes[freq_map'[1].head].next = cache'[op'.key].node
     /\ min_freq' = 1

C26_PutNew == [][C26_Step]_vars

\* A put of an absent key on a full cache, in front of an older entry of the
\* frequency-1 list.
C26_Witness ==
  /\ op.name = "put"
  /\ capacity >= 1
  /\ op.live >= capacity
  /\ op.key \in LiveKeys
  /\ cache[op.key].freq = 1
  /\ Len(ListKeys(freq_map[1])) >= 2
  /\ ListKeys(freq_map[1])[1] = op.key
  /\ min_freq = 1

\* ---- C27 ----
\* C27: put(k, v) with k absent while the cache holds fewer than capacity
\* keys removes no key; every key live before keeps its value, its frequency
\* and its place relative to the other keys of its frequency list, and the
\* number of live keys grows by exactly 1.
C27_Step ==
  (op'.name = "put" /\ op'.key \notin LiveKeys /\ Cardinality(LiveKeys) < capacity)
  => /\ LiveKeys \subseteq DOMAIN cache'
     /\ \A k \in LiveKeys :
          /\ cache'[k].val = cache[k].val
          /\ cache'[k].freq = cache[k].freq
     /\ \A f \in DOMAIN freq_map :
          /\ f \in DOMAIN freq_map'
          /\ SelectSeq(ListEntries(freq_map'[f]), LAMBDA e : e.key # op'.key)
               = ListEntries(freq_map[f])
     /\ Cardinality(DOMAIN cache') = Cardinality(LiveKeys) + 1

C27_PutNewFrame == [][C27_Step]_vars

\* A put of an absent key below capacity, next to a key live before it.
C27_Witness ==
  /\ op.name = "put"
  /\ op.live >= 1
  /\ op.live < capacity
  /\ op.key \in LiveKeys
  /\ cache[op.key].freq = 1
  /\ Cardinality(LiveKeys) = op.live + 1
  /\ Len(ListKeys(freq_map[1])) >= 2

\* ---- C30 ----
\* C30: in every reachable state the value in the key-index tuple of a live
\* key k and the value in k's list node are equal, and equal to the value of
\* the most recent put(k, .) since k was inserted; get(k) on a live key
\* returns that value.
C30_ValuePersistence ==
  /\ DOMAIN last_put = LiveKeys
  /\ \A k \in LiveKeys :
       /\ cache[k].val = last_put[k]
       /\ cache[k].freq \in DOMAIN freq_map
       /\ cache[k].node \in 1..Len(freq_map[cache[k].freq].nodes)
       /\ freq_map[cache[k].freq].nodes[cache[k].node].key = k
       /\ freq_map[cache[k].freq].nodes[cache[k].node].val = cache[k].val
  /\ (op.name = "get" /\ op.key \in LiveKeys) => op.ret = last_put[op.key]

\* A get hit on a key put and bumped before, next to a key with another value.
C30_Witness ==
  /\ op.name = "get"
  /\ op.key \in LiveKeys
  /\ cache[op.key].freq = 3
  /\ op.ret = last_put[op.key]
  /\ \E o \in LiveKeys : last_put[o] # op.ret

(***************************************************************************)
(* Trie of src/design-prefix-tree/src/main.rs: a node holds an array of 26 *)
(* optional children and the mark is_end.  A String is the sequence of its *)
(* bytes; an Option is the empty sequence for None and a one-element       *)
(* sequence for Some.                                                      *)
(***************************************************************************)

\* Bounds: the letters used (from 'a' on), the length of a word and the
\* number of distinct words inserted.
MaxLetter == 2
MaxWordLen == 2
MaxWords == 2

\* b'a'
Byte_a == 97

\* The words of at most MaxWordLen of the first MaxLetter lowercase letters.
TrieWords ==
  UNION {[1..n -> Byte_a..(Byte_a + MaxLetter - 1)] : n \in 0..MaxWordLen}

TrieNode_new == [children |-> [i \in 0..25 |-> << >>], is_end |-> FALSE]

Trie_new == [root |-> TrieNode_new]

\* (ch as u8 - b'a') as usize
char_index(ch) == ch - Byte_a

\* The loop of insert from node current on, with the bytes left of the word.
RECURSIVE insert_loop(_, _)
insert_loop(current, word) ==
  IF word = << >>
  THEN [current EXCEPT !.is_end = TRUE]
  ELSE LET index == char_index(Head(word))
           child == IF current.children[index] = << >>
                    THEN TrieNode_new
                    ELSE current.children[index][1]
       IN [current EXCEPT !.children[index] = <<insert_loop(child, Tail(word))>>]

trie_insert(self, word) == [self EXCEPT !.root = insert_loop(self.root, word)]

\* The loop of search from node current on; current.is_end is returned when
\* the bytes are used up.
RECURSIVE search_loop(_, _)
search_loop(current, word) ==
  IF word = << >>
  THEN current.is_end
  ELSE LET index == char_index(Head(word))
       IN IF current.children[index] = << >>
          THEN FALSE
          ELSE search_loop(current.children[index][1], Tail(word))

\* The loop of starts_with; true is returned when the bytes are used up.
RECURSIVE starts_with_loop(_, _)
starts_with_loop(current, prefix) ==
  IF prefix = << >>
  THEN TRUE
  ELSE LET index == char_index(Head(prefix))
       IN IF current.children[index] = << >>
          THEN FALSE
          ELSE starts_with_loop(current.children[index][1], Tail(prefix))

\* Mutant of trie_search: the mark is_end is not read.
trie_search_prefix(self, word) == starts_with_loop(self.root, word)

trie_search(self, word) == search_loop(self.root, word)

trie_starts_with(self, prefix) == starts_with_loop(self.root, prefix)

\* History: the last call with its argument and result, and the words
\* inserted.
TrieCall(name, word, ret) == [name |-> name, word |-> word, ret |-> ret]

TrieHist(o, inserted) == [op |-> o, inserted |-> inserted]

InitTrie ==
  /\ trie = Trie_new
  /\ trie_hist = TrieHist(TrieCall("new", << >>, FALSE), {})
  /\ LfuAbsent /\ LruAbsent /\ MsAbsent /\ ItAbsent /\ TwAbsent
  /\ LstAbsent /\ CodecAbsent

TrieInsert(word) ==
  /\ word \in trie_hist.inserted \/ Cardinality(trie_hist.inserted) < MaxWords
  /\ trie' = trie_insert(trie, word)
  /\ trie_hist' = TrieHist(TrieCall("insert", word, FALSE),
                           trie_hist.inserted \cup {word})
  /\ UNCHANGED <<lfuVars, lruVars, msVars, itVars, twVars, lstVars, codecVars>>

TrieSearch(word) ==
  /\ trie' = trie
  /\ trie_hist' = [trie_hist EXCEPT
                     !.op = TrieCall("search", word, trie_search(trie, word))]
  /\ UNCHANGED <<lfuVars, lruVars, msVars, itVars, twVars, lstVars, codecVars>>

TrieStartsWith(prefix) ==
  /\ trie' = trie
  /\ trie_hist' = [trie_hist EXCEPT
                     !.op = TrieCall("starts_with", prefix, trie_starts_with(trie, prefix))]
  /\ UNCHANGED <<lfuVars, lruVars, msVars, itVars, twVars, lstVars, codecVars>>

NextTrie ==
  \/ \E word \in TrieWords : TrieInsert(word)
  \/ \E word \in TrieWords : TrieSearch(word)
  \/ \E prefix \in TrieWords : TrieStartsWith(prefix)

SpecTrie == InitTrie /\ [][NextTrie]_vars

IsPrefix(p, w) == Len(p) <= Len(w) /\ SubSeq(w, 1, Len(p)) = p

\* ---- C22 ----
\* C22: after any sequence of insert calls search(w) is true exactly when w
\* is one of the words inserted, so a proper prefix of an inserted word that
\* was not inserted itself is not found, and starts_with(p) is true exactly
\* when p is a prefix of at least one inserted word; on an empty trie both
\* are false for every non-empty string.
C22_SearchAndPrefix ==
  LET inserted == trie_hist.inserted
      o == trie_hist.op
  IN /\ \A w \in TrieWords :
          /\ trie_search(trie, w) = (w \in inserted)
          /\ (inserted # {} \/ w # << >>) =>
                trie_starts_with(trie, w) = (\E x \in inserted : IsPrefix(w, x))
     /\ o.name = "search" => o.ret = (o.word \in inserted)
     /\ (o.name = "starts_with" /\ (inserted # {} \/ o.word # << >>)) =>
           o.ret = (\E x \in inserted : IsPrefix(o.word, x))

\* search of a proper prefix, not inserted itself, of an inserted word.
C22_Witness ==
  /\ trie_hist.op.name = "search"
  /\ trie_hist.op.ret = FALSE
  /\ trie_hist.op.word # << >>
  /\ \E x \in trie_hist.inserted :
        IsPrefix(trie_hist.op.word, x) /\ x # trie_hist.op.word
  /\ trie_starts_with(trie, trie_hist.op.word)
  /\ Cardinality(trie_hist.inserted) = 2

(***************************************************************************)
(* Codec of src/serialize-binary-tree/src/main.rs.  A tree handed to or    *)
(* returned by the Codec is an Option of a node with its subtrees: the     *)
(* empty sequence for None, a one-element sequence for Some.  While        *)
(* deserialize builds a tree, its nodes live in an arena and left and      *)
(* right hold the index of the child or None.  A String is the sequence    *)
(* of its characters.                                                      *)
(***************************************************************************)

\* Bounds: the nodes of a tree and the greatest absolute node value.
MaxTreeNodes == 3
MaxTreeVal == 12

CodecVals == {0 - MaxTreeVal, 0, MaxTreeVal}

RECURSIVE TreesOfSize(_)
TreesOfSize(n) ==
  IF n = 0
  THEN {<< >>}
  ELSE UNION {{<<[val |-> v, left |-> l, right |-> r]>> :
                 v \in CodecVals, l \in TreesOfSize(i), r \in TreesOfSize(n - 1 - i)} :
              i \in 0..(n - 1)}

CodecTrees == UNION {TreesOfSize(n) : n \in 0..MaxTreeNodes}

Digits == <<"0", "1", "2", "3", "4", "5", "6", "7", "8", "9">>

RECURSIVE nat_to_string(_)
nat_to_string(n) ==
  IF n < 10
  THEN <<Digits[n + 1]>>
  ELSE nat_to_string(n \div 10) \o <<Digits[(n % 10) + 1]>>

\* Mutant of i32_to_string: the sign is not written.
i32_to_string_abs(v) == IF v < 0 THEN nat_to_string(0 - v) ELSE nat_to_string(v)

\* i32::to_string
i32_to_string(v) ==
  IF v < 0 THEN <<"-">> \o nat_to_string(0 - v) ELSE nat_to_string(v)

digit_value(c) == (CHOOSE d \in 1..10 : Digits[d] = c) - 1

RECURSIVE digits_value(_, _)
digits_value(str, acc) ==
  IF str = << >> THEN acc ELSE digits_value(Tail(str), 10 * acc + digit_value(Head(str)))

\* str::parse::<i32>: an optional sign and at least one digit, within the
\* range of i32; the empty sequence for Err, <<n>> for Ok(n).
i32_parse(str) ==
  LET i32_max == 2147483647
      i32_min == 0 - i32_max - 1
      is_digit(c) == \E d \in 1..10 : Digits[d] = c
      signed == str # << >> /\ Head(str) \in {"-", "+"}
      digits == IF signed THEN Tail(str) ELSE str
      n == digits_value(digits, 0)
      v == IF signed /\ Head(str) = "-" THEN 0 - n ELSE n
  IN IF digits = << >> \/ \E j \in 1..Len(digits) : ~is_digit(digits[j])
     THEN << >>
     ELSE IF v < i32_min \/ v > i32_max THEN << >> ELSE <<v>>

\* The while loop of serialize over the queue of optional nodes.
RECURSIVE serialize_loop(_, _)
serialize_loop(queue, result) ==
  IF queue = << >>
  THEN result
  ELSE LET node_opt == Head(queue)
       IN IF node_opt # << >>
          THEN LET node_ref == node_opt[1]
               IN serialize_loop(Tail(queue) \o <<node_ref.left, node_ref.right>>,
                                 result \o i32_to_string(node_ref.val) \o <<"/">>)
          ELSE serialize_loop(Tail(queue), result \o <<"n", "/">>)

serialize(root) ==
  IF root = << >> THEN <<"n">> ELSE serialize_loop(<<root>>, << >>)

\* data.split('/').filter(|x| !x.is_empty()).collect()
RECURSIVE split_loop(_, _, _)
split_loop(data, piece, pieces) ==
  LET kept == IF piece = << >> THEN pieces ELSE Append(pieces, piece)
  IN IF data = << >>
     THEN kept
     ELSE IF Head(data) = "/"
          THEN split_loop(Tail(data), << >>, kept)
          ELSE split_loop(Tail(data), Append(piece, Head(data)), pieces)

split(data) == split_loop(data, << >>, << >>)

TreeNode_new(val) == [val |-> val, left |-> None, right |-> None]

\* The tree below node i of an arena as an Option of a node with subtrees.
RECURSIVE rc_tree(_, _)
rc_tree(arena, i) ==
  IF i = None
  THEN << >>
  ELSE <<[val |-> arena[i].val,
          left |-> rc_tree(arena, arena[i].left),
          right |-> rc_tree(arena, arena[i].right)]>>

\* Result of deserialize: the tree returned and whether an unwrap failed.
CodecResult(ret, failed) == [ret |-> ret, panicked |-> failed]

\* The while loop of deserialize; i counts from 1, queue holds arena indices.
RECURSIVE deserialize_loop(_, _, _, _)
deserialize_loop(nodes, arena, queue, i) ==
  IF queue = << >> \/ i > Len(nodes)
  THEN CodecResult(rc_tree(arena, 1), FALSE)
  ELSE LET current == Head(queue)
           q0 == Tail(queue)
           has_left == nodes[i] # <<"n">>
           lv == i32_parse(nodes[i])
           left == Len(arena) + 1
           a1 == IF has_left /\ lv # << >>
                 THEN [Append(arena, TreeNode_new(lv[1])) EXCEPT ![current].left = left]
                 ELSE arena
           q1 == IF has_left THEN Append(q0, left) ELSE q0
           i1 == i + 1
           has_right == i1 <= Len(nodes) /\ nodes[i1] # <<"n">>
           rv == IF has_right THEN i32_parse(nodes[i1]) ELSE << >>
           right == Len(a1) + 1
           a2 == IF has_right /\ rv # << >>
                 THEN [Append(a1, TreeNode_new(rv[1])) EXCEPT ![current].right = right]
                 ELSE a1
           q2 == IF has_right THEN Append(q1, right) ELSE q1
       IN IF (has_left /\ lv = << >>) \/ (has_right /\ rv = << >>)
          THEN CodecResult(<< >>, TRUE)
          ELSE deserialize_loop(nodes, a2, q2, i1 + 1)

deserialize(data) ==
  IF data = <<"n">>
  THEN CodecResult(<< >>, FALSE)
  ELSE LET nodes == split(data)
       IN IF nodes = << >>
          THEN CodecResult(<< >>, FALSE)
          ELSE LET rv == i32_parse(nodes[1])
               IN IF rv = << >>
                  THEN CodecResult(<< >>, TRUE)
                  ELSE deserialize_loop(nodes, <<TreeNode_new(rv[1])>>, <<1>>, 2)

\* History of a run of the test: the tree built, the string serialize
\* returned for it, the tree deserialize returned for that string, the
\* string serialize returned for that tree, the last call made and whether
\* an unwrap failed.
CodecHist(root, data, tree, again, step, failed) ==
  [root |-> root, data |-> data, tree |-> tree, again |-> again,
   step |-> step, panicked |-> failed]

InitCodec ==
  /\ \E root \in CodecTrees :
       codec_hist = CodecHist(root, << >>, << >>, << >>, "new", FALSE)
  /\ LfuAbsent /\ LruAbsent /\ MsAbsent /\ ItAbsent /\ TwAbsent
  /\ LstAbsent /\ TrieAbsent

\* let serialized = codec.serialize(Some(node1.clone()));
CodecSerialize ==
  /\ codec_hist.step = "new"
  /\ codec_hist' = [codec_hist EXCEPT
                      !.data = serialize(codec_hist.root),
                      !.step = "serialize"]
  /\ UNCHANGED <<lfuVars, lruVars, msVars, itVars, twVars, lstVars, trieVars>>

\* let deserialized = codec.deserialize(serialized);
CodecDeserialize ==
  /\ codec_hist.step = "serialize"
  /\ LET r == deserialize(codec_hist.data)
     IN codec_hist' = [codec_hist EXCEPT
                         !.tree = r.ret,
                         !.panicked = r.panicked,
                         !.step = "deserialize"]
  /\ UNCHANGED <<lfuVars, lruVars, msVars, itVars, twVars, lstVars, trieVars>>

\* codec.serialize(deserialized)
CodecSerializeAgain ==
  /\ codec_hist.step = "deserialize"
  /\ ~codec_hist.panicked
  /\ codec_hist' = [codec_hist EXCEPT
                      !.again = serialize(codec_hist.tree),
                      !.step = "serialize again"]
  /\ UNCHANGED <<lfuVars, lruVars, msVars, itVars, twVars, lstVars, trieVars>>

NextCodec ==
  \/ CodecSerialize
  \/ CodecDeserialize
  \/ CodecSerializeAgain

SpecCodec == InitCodec /\ [][NextCodec]_vars

\* ---- C23 ----
\* C23: for every binary tree t, the empty tree included,
\* deserialize(serialize(t)) is a tree with the shape and the node values of
\* t, so serialize(deserialize(serialize(t))) equals serialize(t).
C23_RoundTrip ==
  /\ codec_hist.step \in {"deserialize", "serialize again"} =>
        /\ ~codec_hist.panicked
        /\ codec_hist.tree = codec_hist.root
  /\ codec_hist.step = "serialize again" => codec_hist.again = codec_hist.data

\* The round trip of a tree of three nodes whose root has no left child and
\* holds a negative value.
C23_Witness ==
  /\ codec_hist.step = "serialize again"
  /\ codec_hist.root # << >>
  /\ codec_hist.root[1].val < 0
  /\ codec_hist.root[1].left = << >>
  /\ codec_hist.root[1].right # << >>
  /\ codec_hist.root[1].right[1].left # << >>
  /\ codec_hist.tree = codec_hist.root
  /\ codec_hist.again = codec_hist.data

====
